---------------------------- MODULE Spec2Model ----------------------------
(***************************************************************************)
(* A model of the Tech Flow Runner asset generators:                       *)
(*   src/scripts/generate_screenshots.py  (Canvas, save_png, LCG,          *)
(*                                         draw_stars, draw_buildings)     *)
(*   src/scripts/generate_pwa_icons.py    (write_png, main)                *)
(*                                                                         *)
(* Python ints are unbounded and Python floats are IEEE-754 doubles; TLC's *)
(* integers are 32 bits wide.  The module therefore starts with natural    *)
(* numbers of arbitrary size (sequences of 15-bit limbs) and, on top of    *)
(* them, double-precision arithmetic with round-to-nearest-even, so that   *)
(* int(...) of a float expression is the value CPython computes.           *)
(***************************************************************************)
EXTENDS Integers, Sequences, FiniteSets, TLC

(***************************************************************************)
(* Arbitrary-size naturals: little-endian sequences of limbs in 0..Base-1, *)
(* without leading (high) zero limbs; zero is the empty sequence.  The     *)
(* operations are functions: their arguments are values when the body is   *)
(* evaluated.                                                              *)
(***************************************************************************)
LimbBits == 5 * 3
Base == 2 ^ LimbBits
Bigs == Seq(0..(Base - 1))

Min(a, b) == IF a < b THEN a ELSE b
Max(a, b) == IF a > b THEN a ELSE b

Pow2(n) == 2 ^ n

Head0(a) == IF a = <<>> THEN 0 ELSE a[1]
Tail0(a) == IF a = <<>> THEN a ELSE Tail(a)

\* a without its high zero limbs
BNorm[a \in Bigs] ==
    IF a = <<>> THEN <<>>
    ELSE IF a[Len(a)] = 0 THEN BNorm[SubSeq(a, 1, Len(a) - 1)]
    ELSE a

BFromNat[n \in Nat] == IF n = 0 THEN <<>> ELSE <<n % Base>> \o BFromNat[n \div Base]

BToNat[a \in Bigs] == IF a = <<>> THEN 0 ELSE a[1] + Base * BToNat[Tail(a)]

\* a + b + c for a carry c
BAddC[a \in Bigs, b \in Bigs, c \in 0..1] ==
    IF a = <<>> /\ b = <<>> THEN (IF c = 0 THEN <<>> ELSE <<c>>)
    ELSE <<(Head0(a) + Head0(b) + c) % Base>>
             \o BAddC[Tail0(a), Tail0(b), (Head0(a) + Head0(b) + c) \div Base]

BAdd[a \in Bigs, b \in Bigs] == BAddC[a, b, 0]

\* a - b - c for a borrow c and a >= b + c
BSubC[a \in Bigs, b \in Bigs, c \in 0..1] ==
    IF a = <<>> THEN <<>>
    ELSE <<(a[1] - Head0(b) - c) % Base>>
             \o BSubC[Tail(a), Tail0(b), IF a[1] - Head0(b) - c < 0 THEN 1 ELSE 0]

BSub[a \in Bigs, b \in Bigs] == BNorm[BSubC[a, b, 0]]

\* -1, 0, 1 as a < b, a = b, a > b: decided by the highest limb that differs
BCmpAt(a, b, i) == IF a[i] < b[i] THEN -1 ELSE 1

BCmp[a \in Bigs, b \in Bigs] ==
    IF Len(a) < Len(b) THEN -1
    ELSE IF Len(a) > Len(b) THEN 1
    ELSE IF a = b THEN 0
    ELSE BCmpAt(a, b, CHOOSE i \in 1..Len(a) :
                          a[i] # b[i] /\ \A j \in (i + 1)..Len(a) : a[j] = b[j])

\* a * k + c for a limb k and a carry c
BMulSmallC[a \in Bigs, k \in 0..(Base - 1), c \in 0..(Base - 1)] ==
    IF a = <<>> THEN (IF c = 0 THEN <<>> ELSE <<c>>)
    ELSE <<(a[1] * k + c) % Base>> \o BMulSmallC[Tail(a), k, (a[1] * k + c) \div Base]

BMulSmall[a \in Bigs, k \in 0..(Base - 1)] ==
    IF k = 0 THEN <<>> ELSE BMulSmallC[a, k, 0]

\* a * Base^n
BShiftLimbs[a \in Bigs, n \in Nat] ==
    IF a = <<>> THEN <<>>
    ELSE [i \in 1..(Len(a) + n) |-> IF i <= n THEN 0 ELSE a[i - n]]

BMul[a \in Bigs, b \in Bigs] ==
    IF a = <<>> \/ b = <<>> THEN <<>>
    ELSE BAdd[BMulSmall[a, b[1]], BShiftLimbs[BMul[a, Tail(b)], 1]]

\* a * 2^n
BShl[a \in Bigs, n \in Nat] ==
    BShiftLimbs[BMulSmall[a, Pow2(n % LimbBits)], n \div LimbBits]

\* floor(a / d) for a limb d > 0: the limbs from limb i down, r the
\* remainder the limbs above i left
BDivSmallAt[a \in Bigs, d \in 1..(Base - 1), i \in Nat, r \in 0..(Base - 1)] ==
    IF i = 0 THEN <<>>
    ELSE BDivSmallAt[a, d, i - 1, (r * Base + a[i]) % d] \o <<(r * Base + a[i]) \div d>>

BDivSmall[a \in Bigs, d \in 1..(Base - 1)] == BNorm[BDivSmallAt[a, d, Len(a), 0]]

\* floor(a / 2^n)
BShr[a \in Bigs, n \in Nat] ==
    IF n \div LimbBits >= Len(a) THEN <<>>
    ELSE BDivSmall[SubSeq(a, (n \div LimbBits) + 1, Len(a)), Pow2(n % LimbBits)]

\* the number of bits of a limb, and of a
NatBitLen(n) ==
    IF n = 0 THEN 0 ELSE CHOOSE k \in 1..LimbBits : Pow2(k - 1) <= n /\ n < Pow2(k)

BBitLen(a) ==
    IF a = <<>> THEN 0 ELSE LimbBits * (Len(a) - 1) + NatBitLen(a[Len(a)])

\* bit n (counted from 0) of a
BTestBit(a, n) ==
    IF n \div LimbBits >= Len(a) THEN FALSE
    ELSE (a[(n \div LimbBits) + 1] \div Pow2(n % LimbBits)) % 2 = 1

\* whether the n low bits of a are all zero
BLowZero(a, n) ==
    /\ \A i \in 1..(n \div LimbBits) : i > Len(a) \/ a[i] = 0
    /\ \/ n \div LimbBits >= Len(a)
       \/ a[(n \div LimbBits) + 1] % Pow2(n % LimbBits) = 0

BOdd(a) == a # <<>> /\ a[1] % 2 = 1

\* The largest q <= qh with q * d <= r, found downward from the estimate qh
BFixDigit[r \in Bigs, d \in Bigs, qh \in 0..(Base - 1)] ==
    IF BCmp[BMulSmall[d, qh], r] <= 0 THEN qh ELSE BFixDigit[r, d, qh - 1]

\* the two top limbs of the running remainder r1 against a divisor of k limbs
BTop2(r1, k) ==
    IF Len(r1) < k THEN 0
    ELSE IF Len(r1) = k THEN r1[k]
    ELSE r1[k + 1] * Base + r1[k]

\* Schoolbook long division by d, whose top limb has its high bit set, so
\* that the estimate of a quotient limb from the top limbs is at most 2 too
\* large.  One step: the quotient limb qh of the running remainder r1, and
\* the remainder it leaves.
BDivTake[r1 \in Bigs, d \in Bigs, qh \in 0..(Base - 1)] ==
    [qh |-> qh, r |-> BSub[r1, BMulSmall[d, qh]]]

BDivDigit[r1 \in Bigs, d \in Bigs] ==
    BDivTake[r1, d, BFixDigit[r1, d, Min(Base - 1, BTop2(r1, Len(d)) \div d[Len(d)])]]

\* the quotient limbs so far with the limb of one more step below them
BDivStates == [q : Bigs, r : Bigs]
BDivDigits == [qh : 0..(Base - 1), r : Bigs]
BDivPut[q \in Bigs, st \in BDivDigits] == [q |-> <<st.qh>> \o q, r |-> st.r]

BDivCons[acc \in BDivStates, d \in Bigs, limb \in 0..(Base - 1)] ==
    BDivPut[acc.q, BDivDigit[BNorm[<<limb>> \o acc.r], d]]

\* the limbs of n from the top down to limb i divided by d
BDivAt[n \in Bigs, d \in Bigs, i \in Nat] ==
    IF i > Len(n) THEN [q |-> <<>>, r |-> <<>>]
    ELSE BDivCons[BDivAt[n, d, i + 1], d, n[i]]

\* q = floor(n / d) and whether the division is exact, for d > 0; n and d
\* are first scaled by 2^sh to set the high bit of d's top limb
BDivRes[dv \in BDivStates] == [q |-> BNorm[dv.q], exact |-> dv.r = <<>>]
BDivSh[n \in Bigs, d \in Bigs, sh \in Nat] == BDivRes[BDivAt[BShl[n, sh], BShl[d, sh], 1]]
BDiv[n \in Bigs, d \in Bigs] == BDivSh[n, d, LimbBits - NatBitLen(d[Len(d)])]

(***************************************************************************)
(* IEEE-754 binary64 values in the normal range: s * m * 2^e with s the    *)
(* sign, and m = 0 or 2^52 <= m < 2^53.  Every operation computes the      *)
(* exact result and rounds it to nearest, ties to even, as the hardware    *)
(* does.  (No value of these programs is subnormal, infinite or NaN.)      *)
(***************************************************************************)
MantBits == 50 + 3
Signs == {-1, 1}
Floats == [s : Signs, m : Bigs, e : Int]

FZero == [s |-> 1, m |-> <<>>, e |-> 0]

\* the rounded mantissa q1 may have reached 2^53
FCarry[s \in Signs, e \in Int, q1 \in Bigs] ==
    IF BBitLen(q1) > MantBits
    THEN [s |-> s, m |-> BShr[q1, 1], e |-> e + 1]
    ELSE [s |-> s, m |-> q1, e |-> e]

\* q the 53 leading bits, half the bit below them, st whether anything
\* lies below that: round to nearest, ties to even
FRoundQ[s \in Signs, e \in Int, q \in Bigs, half \in BOOLEAN, st \in BOOLEAN] ==
    FCarry[s, e, IF half /\ (st \/ BOdd(q)) THEN BAdd[q, <<1>>] ELSE q]

\* L the bit length of n
FRoundL[s \in Signs, n \in Bigs, e \in Int, sticky \in BOOLEAN, L \in Nat] ==
    IF L <= MantBits
    THEN [s |-> s, m |-> BShl[n, MantBits - L], e |-> e - (MantBits - L)]
    ELSE FRoundQ[s, e + (L - MantBits), BShr[n, L - MantBits],
                 BTestBit(n, L - MantBits - 1),
                 sticky \/ ~BLowZero(n, L - MantBits - 1)]

\* the double nearest to s * (n * 2^e [+ a positive amount below n's last bit])
FRound[s \in Signs, n \in Bigs, e \in Int, sticky \in BOOLEAN] ==
    IF n = <<>> THEN FZero ELSE FRoundL[s, n, e, sticky, BBitLen(n)]

\* float(n) for a natural given as limbs, and for a TLC integer
FFromBig[n \in Bigs] == FRound[1, n, 0, FALSE]
FInt[i \in Int] ==
    FRound[IF i < 0 THEN -1 ELSE 1, BFromNat[IF i < 0 THEN -i ELSE i], 0, FALSE]

FNeg[x \in Floats] == IF x.m = <<>> THEN x ELSE [x EXCEPT !.s = -x.s]

\* x * y
FMul[x \in Floats, y \in Floats] ==
    IF x.m = <<>> \/ y.m = <<>> THEN FZero
    ELSE FRound[x.s * y.s, BMul[x.m, y.m], x.e + y.e, FALSE]

\* x + y: the mantissas xm, ym brought to the common exponent e, c their order
FAddC[xs \in Signs, ys \in Signs, xm \in Bigs, ym \in Bigs, e \in Int, c \in -1..1] ==
    FRound[IF c >= 0 THEN xs ELSE ys,
           IF xs = ys THEN BAdd[xm, ym]
           ELSE IF c >= 0 THEN BSub[xm, ym] ELSE BSub[ym, xm],
           e, FALSE]
FAddM[xs \in Signs, ys \in Signs, xm \in Bigs, ym \in Bigs, e \in Int] ==
    FAddC[xs, ys, xm, ym, e, BCmp[xm, ym]]
FAddE[x \in Floats, y \in Floats, e \in Int] ==
    FAddM[x.s, y.s, BShl[x.m, x.e - e], BShl[y.m, y.e - e], e]
FAdd[x \in Floats, y \in Floats] ==
    IF x.m = <<>> THEN y
    ELSE IF y.m = <<>> THEN x
    ELSE FAddE[x, y, Min(x.e, y.e)]

\* x - y
FSub[x \in Floats, y \in Floats] == FAdd[x, FNeg[y]]

\* x / y: the quotient of the mantissas to DivExtra more bits
DivExtra == 4 * LimbBits
BDivResults == [q : Bigs, exact : BOOLEAN]
FDivQ[s \in Signs, e \in Int, dv \in BDivResults] ==
    FRound[s, dv.q, e, ~dv.exact]
FDiv[x \in Floats, y \in Floats] ==
    IF x.m = <<>> THEN FZero
    ELSE FDivQ[x.s * y.s, x.e - y.e - DivExtra, BDiv[BShl[x.m, DivExtra], y.m]]

\* -1, 0, 1 as |x| < |y|, |x| = |y|, |x| > |y|
FCmpMag(x, y) ==
    IF x.m = <<>> /\ y.m = <<>> THEN 0
    ELSE IF x.m = <<>> THEN -1
    ELSE IF y.m = <<>> THEN 1
    ELSE IF x.e < y.e THEN -1
    ELSE IF x.e > y.e THEN 1
    ELSE BCmp[x.m, y.m]

FSign(x) == IF x.m = <<>> THEN 0 ELSE x.s

\* -1, 0, 1 as x < y, x = y, x > y
FCmp[x \in Floats, y \in Floats] ==
    IF FSign(x) < FSign(y) THEN -1
    ELSE IF FSign(x) > FSign(y) THEN 1
    ELSE IF FSign(x) = 0 THEN 0
    ELSE FSign(x) * FCmpMag(x, y)

FGt(x, y) == FCmp[x, y] > 0

\* int(x): truncation toward zero (the result fits a TLC integer)
FTrunc[x \in Floats] ==
    IF x.m = <<>> THEN 0
    ELSE x.s * BToNat[IF x.e >= 0 THEN BShl[x.m, x.e] ELSE BShr[x.m, 0 - x.e]]

(***************************************************************************)
(* Canvas: an RGBA framebuffer.  data is the bytearray, a sequence of      *)
(* bytes indexed from 1 (Python's index i is element i + 1).  An operation *)
(* yields the new bytearray and whether it raised.                         *)
(***************************************************************************)
IsByte(v) == v \in 0..255

\* bytearray(n): n zero bytes
ZeroBytes(n) == [k \in 1..n |-> 0]

\* Canvas.__init__
NewCanvas(cw, ch) == [w |-> cw, h |-> ch, data |-> ZeroBytes(cw * ch * 4)]

\* the values a Canvas takes, and those of its bytearray
Buffers == Seq(Int)
Canvases == [w : Nat, h : Nat, data : Buffers]

\* A slice bound as Python normalises it for a sequence of length n
SliceIndex(i, n) == IF i < 0 THEN Max(i + n, 0) ELSE Min(i, n)

\* d[i:j] = seg on a bytearray: the slice is replaced by seg, whatever the
\* two lengths are, so the bytearray may grow or shrink
SetSlice(d, i, j, seg) ==
    LET n  == Len(d)
        lo == SliceIndex(i, n)
        hi == Max(lo, SliceIndex(j, n))
    IN  SubSeq(d, 1, lo) \o seg \o SubSeq(d, hi + 1, n)

\* bytes((r, g, b, a)) * n; bytes() raises ValueError outside 0..255
Quad(r, g, b, a) == <<r, g, b, a>>
QuadOK(r, g, b, a) == IsByte(r) /\ IsByte(g) /\ IsByte(b) /\ IsByte(a)
Repeat(q, n) == [k \in 1..(Len(q) * n) |-> q[((k - 1) % Len(q)) + 1]]

Outcomes == [data : Buffers, raised : BOOLEAN]
Ok(d) == [data |-> d, raised |-> FALSE]
Raise(d) == [data |-> d, raised |-> TRUE]

InBounds(c, x, y) == 0 <= x /\ x < c.w /\ 0 <= y /\ y < c.h

\* Canvas.set with the bounds test written x <= w, y <= h
CanvasSet_MutInclusive(c, x, y, r, g, b, a) ==
    IF 0 <= x /\ x <= c.w /\ 0 <= y /\ y <= c.h
    THEN Ok(SetSlice(c.data, (y * c.w + x) * 4, (y * c.w + x) * 4 + 4,
                     Quad(r, g, b, a)))
    ELSE Ok(c.data)

\* Canvas.set
CanvasSet(c, x, y, r, g, b, a) ==
    IF InBounds(c, x, y)
    THEN LET i == (y * c.w + x) * 4
         IN  IF QuadOK(r, g, b, a)
             THEN Ok(SetSlice(c.data, i, i + 4, Quad(r, g, b, a)))
             ELSE Raise(c.data)
    ELSE Ok(c.data)

\* Canvas.fill_row without the clamp x1 = min(self.w, x1)
FillRow_MutNoClamp(c, y, x0, x1, r, g, b, a) ==
    IF y < 0 \/ y >= c.h \/ x1 <= Max(0, x0) THEN Ok(c.data)
    ELSE Ok(SetSlice(c.data, (y * c.w + Max(0, x0)) * 4,
                     (y * c.w + Max(0, x0)) * 4 + 4 * (x1 - Max(0, x0)),
                     Repeat(Quad(r, g, b, a), x1 - Max(0, x0))))

\* Canvas.fill_row
FillRow(c, y, x0, x1, r, g, b, a) ==
    IF y < 0 \/ y >= c.h THEN Ok(c.data)
    ELSE LET xa == Max(0, x0)
             xb == Min(c.w, x1)
         IN  IF xb <= xa THEN Ok(c.data)
             ELSE IF ~QuadOK(r, g, b, a) THEN Raise(c.data)
             ELSE LET segment == Repeat(Quad(r, g, b, a), xb - xa)
                      i == (y * c.w + xa) * 4
                  IN  Ok(SetSlice(c.data, i, i + Len(segment), segment))

\* Canvas.fill_rect: fill_row for the rows y, y + 1, ... below yend in
\* order, stopping at a raise (the rows before the middle one, then the rest)
FillRows[w, h \in Nat, res \in Outcomes, y, yend, x0, x1, r, g, b, a \in Int] ==
    IF res.raised \/ y >= yend THEN res
    ELSE IF yend = y + 1
    THEN FillRow([w |-> w, h |-> h, data |-> res.data], y, x0, x1, r, g, b, a)
    ELSE FillRows[w, h, FillRows[w, h, res, y, (y + yend) \div 2, x0, x1, r, g, b, a],
                  (y + yend) \div 2, yend, x0, x1, r, g, b, a]

\* Canvas.fill_rect with the last row y1 included
FillRect_MutInclusive(c, x0, y0, x1, y1, r, g, b, a) ==
    FillRows[c.w, c.h, Ok(c.data), Max(0, y0), Min(c.h, y1 + 1), x0, x1, r, g, b, a]

FillRect(c, x0, y0, x1, y1, r, g, b, a) ==
    FillRows[c.w, c.h, Ok(c.data), Max(0, y0), Min(c.h, y1), x0, x1, r, g, b, a]

\* max(0, min(255, v))
Clamp255(v) == Max(0, Min(255, v))

F1 == FInt[1]
F255 == FInt[255]

\* d[i] with Python's index check (i >= 0 here)
HasIndex(d, i) == 0 <= i /\ i < Len(d)

\* The channel with the destination weighted by (1 - da) instead of (1 - sa)
Channel_MutDstWeight(src, dst, sa, da, inv) ==
    Clamp255(FTrunc[FMul[FAdd[FMul[FInt[src], sa],
                              FMul[FMul[FInt[dst], da], FSub[F1, da]]],
                         inv]])

\* Canvas.blend, one definition per assignment: the channel values
\* d[i], d[i + 1], d[i + 2] from sa, da and inv = 1.0 / oa
Channel(src, dst, sa, da, inv) ==
    Clamp255(FTrunc[FMul[FAdd[FMul[FInt[src], sa],
                              FMul[FMul[FInt[dst], da], FSub[F1, sa]]],
                         inv]])

BlendStore[d \in Buffers, i, r, g, b \in Int, sa, da, oa, inv \in Floats] ==
    Ok([d EXCEPT ![i + 1] = Channel(r, d[i + 1], sa, da, inv),
                 ![i + 2] = Channel(g, d[i + 2], sa, da, inv),
                 ![i + 3] = Channel(b, d[i + 3], sa, da, inv),
                 ![i + 4] = Clamp255(FTrunc[FMul[oa, F255]])])

\* if oa > 0.0
BlendOut[d \in Buffers, i, r, g, b \in Int, sa, da, oa \in Floats] ==
    IF FGt(oa, FZero)
    THEN BlendStore[d, i, r, g, b, sa, da, oa, FDiv[F1, oa]]
    ELSE Ok(d)

\* oa = sa + da * (1.0 - sa)
BlendOver[d \in Buffers, i, r, g, b \in Int, sa, da \in Floats] ==
    BlendOut[d, i, r, g, b, sa, da, FAdd[sa, FMul[da, FSub[F1, sa]]]]

\* A blend that stores the source colour and adds the alphas up
BlendAt_MutAdditive(d, i, r, g, b, a) ==
    Ok([d EXCEPT ![i + 1] = r, ![i + 2] = g, ![i + 3] = b,
                 ![i + 4] = Min(255, d[i + 4] + a)])

\* sa = a / 255.0, da = d[i + 3] / 255.0
BlendAt(d, i, r, g, b, a) ==
    IF ~HasIndex(d, i + 3) THEN Raise(d)
    ELSE BlendOver[d, i, r, g, b,
                   FDiv[FInt[a], F255], FDiv[FInt[d[i + 4]], F255]]

Blend(c, x, y, r, g, b, a) ==
    IF a <= 0 \/ ~InBounds(c, x, y) THEN Ok(c.data)
    ELSE BlendAt(c.data, (y * c.w + x) * 4, r, g, b, a)

\* Canvas.blend_row: the columns x, x + 1, ... below xend
RECURSIVE BlendCols(_, _, _, _, _, _, _, _)
BlendCols(c, x, xend, y, r, g, b, a) ==
    IF x >= xend THEN Ok(c.data)
    ELSE LET res == Blend(c, x, y, r, g, b, a)
         IN  IF res.raised THEN res
             ELSE BlendCols([c EXCEPT !.data = res.data], x + 1, xend,
                            y, r, g, b, a)

BlendRow(c, y, x0, x1, r, g, b, a) ==
    BlendCols(c, Max(0, x0), Min(c.w, x1), y, r, g, b, a)

(***************************************************************************)
(* The state: one Canvas and the call being made on it.  A drawing call    *)
(* takes the canvas from "idle" to "returned", where call holds the        *)
(* operation with its arguments and prev the bytearray it started from;    *)
(* an export also leaves its scanline stream in raw and the bytes it wrote *)
(* in png.  Return drops the frame.  runs holds the activations of the     *)
(* starfield and skyline generators, each with a canvas of its own; line   *)
(* the activation of the icon's thick-line routine, lcg an LCG object.     *)
(***************************************************************************)
VARIABLES canvas, raised, pc, call, prev, nops, raw, png, runs, line, lcg

vars == <<canvas, raised, pc, call, prev, nops, raw, png, runs, line, lcg>>

\* Canvas sizes, the margin by which arguments leave the canvas, and the
\* number of calls made on one canvas
MaxW == 2
MaxH == 2
Pad == 1
MaxOps == 2

\* RED_OBS opaque and CYAN at the ground markers' alpha
Colors == {<<255, 90, 124, 255>>, <<46, 248, 255, 200>>}
\* Alphas passed to blend: negative, zero, a window's 110, opaque
BlendAlphas == {-1, 0, 110, 255}

Xs == (0 - Pad)..(canvas.w + Pad)
Ys == (0 - Pad)..(canvas.h + Pad)

NoCall == [op |-> "none", x0 |-> 0, y0 |-> 0, x1 |-> 0, y1 |-> 0,
           color |-> <<0, 0, 0, 0>>]
Call(op, x0, y0, x1, y1, color) ==
    [op |-> op, x0 |-> x0, y0 |-> y0, x1 |-> x1, y1 |-> y1, color |-> color]

Init ==
    /\ canvas \in {NewCanvas(cw, ch) : cw \in 1..MaxW, ch \in 1..MaxH}
    /\ raised = FALSE
    /\ pc = "idle"
    /\ call = NoCall
    /\ prev = <<>>
    /\ nops = 0
    /\ raw = <<>>
    /\ png = <<>>
    /\ runs = <<>>
    /\ line = <<>>
    /\ lcg = <<>>

\* One call: its result replaces the bytearray, an exception is recorded
Step(cl, res) ==
    /\ pc = "idle"
    /\ ~raised
    /\ nops < MaxOps
    /\ canvas' = [canvas EXCEPT !.data = res.data]
    /\ raised' = res.raised
    /\ prev' = canvas.data
    /\ call' = cl
    /\ pc' = "returned"
    /\ nops' = nops + 1
    /\ UNCHANGED <<raw, png, runs, line, lcg>>

DoSet ==
    \E x \in Xs, y \in Ys, k \in Colors :
        Step(Call("set", x, y, 0, 0, k),
             CanvasSet(canvas, x, y, k[1], k[2], k[3], k[4]))

DoFillRow ==
    \E y \in Ys, x0 \in Xs, x1 \in Xs, k \in Colors :
        Step(Call("fill_row", x0, y, x1, 0, k),
             FillRow(canvas, y, x0, x1, k[1], k[2], k[3], k[4]))

DoFillRect ==
    \E x0 \in Xs, y0 \in Ys, x1 \in Xs, y1 \in Ys, k \in Colors :
        Step(Call("fill_rect", x0, y0, x1, y1, k),
             FillRect(canvas, x0, y0, x1, y1, k[1], k[2], k[3], k[4]))

DoBlend ==
    \E x \in Xs, y \in Ys, k \in Colors, a \in BlendAlphas :
        Step(Call("blend", x, y, 0, 0, <<k[1], k[2], k[3], a>>),
             Blend(canvas, x, y, k[1], k[2], k[3], a))

DoBlendRow ==
    \E y \in Ys, x0 \in Xs, x1 \in Xs, k \in Colors, a \in BlendAlphas :
        Step(Call("blend_row", x0, y, x1, 0, <<k[1], k[2], k[3], a>>),
             BlendRow(canvas, y, x0, x1, k[1], k[2], k[3], a))

Return ==
    /\ pc = "returned"
    /\ pc' = "idle"
    /\ call' = NoCall
    /\ prev' = <<>>
    /\ raw' = <<>>
    /\ png' = <<>>
    /\ UNCHANGED <<canvas, raised, nops, runs, line, lcg>>

Next ==
    \/ DoSet
    \/ DoFillRow
    \/ DoFillRect
    \/ DoBlend
    \/ DoBlendRow
    \/ Return

Spec == Init /\ [][Next]_vars

(***************************************************************************)
(* Properties of the Canvas operations.  They read pixels and rectangles   *)
(* through definitions of their own, not through the operations' helpers.  *)
(***************************************************************************)
\* the four bytes of pixel (x, y) in a bytearray d of a canvas cw wide
PixelAt(d, cw, x, y) == SubSeq(d, (y * cw + x) * 4 + 1, (y * cw + x) * 4 + 4)

Inside(x, y) == x \in 0..(canvas.w - 1) /\ y \in 0..(canvas.h - 1)

Returned(ops) == pc = "returned" /\ call.op \in ops

\* every pixel but (x, y) is as it was before the call
OthersUnchanged(x, y) ==
    \A px \in 0..(canvas.w - 1), py \in 0..(canvas.h - 1) :
        (px # x \/ py # y) =>
            PixelAt(canvas.data, canvas.w, px, py)
                = PixelAt(prev, canvas.w, px, py)

\* C1: after any sequence of set, fill_row, fill_rect, blend and blend_row
\* calls, with coordinates in or out of bounds, the bytearray still holds
\* exactly width * height * 4 bytes.
C1_BufferLength == Len(canvas.data) = canvas.w * canvas.h * 4

\* C1 witness: a second call, a fill_rect whose rectangle leaves the canvas
\* on both sides, has changed the buffer.
C1_Witness ==
    /\ Returned({"fill_rect"})
    /\ nops = 2
    /\ call.x0 < 0 /\ call.x1 > canvas.w /\ call.y1 > canvas.h
    /\ canvas.data # prev

\* C2: set and blend outside the canvas, fill_row on a row outside it or
\* with a column range whose clamp is empty, and blend with alpha <= 0 leave
\* every byte unchanged and raise nothing.
C2_NoOpCase ==
    \/ Returned({"set", "blend"}) /\ ~Inside(call.x0, call.y0)
    \/ Returned({"fill_row"}) /\ call.y0 \notin 0..(canvas.h - 1)
    \/ Returned({"fill_row"})
          /\ (IF call.x1 < canvas.w THEN call.x1 ELSE canvas.w)
                 <= (IF call.x0 > 0 THEN call.x0 ELSE 0)
    \/ Returned({"blend"}) /\ call.color[4] <= 0

C2_NoOp == C2_NoOpCase => (canvas.data = prev /\ ~raised)

\* C2 witness: a blend with alpha 0 on a pixel of the canvas that an earlier
\* call has painted.
C2_Witness ==
    /\ Returned({"blend"})
    /\ call.color[4] = 0
    /\ Inside(call.x0, call.y0)
    /\ PixelAt(prev, canvas.w, call.x0, call.y0) # <<0, 0, 0, 0>>

\* C3: after fill_rect(x0, y0, x1, y1, color), and fill_row as the rectangle
\* of one scanline, every pixel of the clamped half-open rectangle equals
\* color, alpha included, whatever it held, and every other pixel is unchanged.
C3_Y1 == IF call.op = "fill_row" THEN call.y0 + 1 ELSE call.y1

C3_InRect(x, y) ==
    /\ call.x0 <= x /\ x < call.x1
    /\ call.y0 <= y /\ y < C3_Y1

C3_FillRect ==
    Returned({"fill_rect", "fill_row"}) =>
        /\ ~raised
        /\ Len(canvas.data) = Len(prev)
        /\ \A x \in 0..(canvas.w - 1), y \in 0..(canvas.h - 1) :
               PixelAt(canvas.data, canvas.w, x, y)
                   = IF C3_InRect(x, y) THEN call.color
                     ELSE PixelAt(prev, canvas.w, x, y)

\* C3 witness: a fill_rect reaching past the right and bottom edges has
\* overwritten a pixel that held the other colour and left pixel (0, 0),
\* painted before, alone.
C3_Witness ==
    /\ Returned({"fill_rect"})
    /\ call.x0 = 1 /\ call.y0 = 1 /\ call.x1 > canvas.w /\ call.y1 > canvas.h
    /\ canvas.w = 2 /\ canvas.h = 2
    /\ PixelAt(prev, canvas.w, 1, 1) \notin {<<0, 0, 0, 0>>, call.color}
    /\ PixelAt(canvas.data, canvas.w, 1, 1) = call.color
    /\ PixelAt(canvas.data, canvas.w, 0, 0) \notin {<<0, 0, 0, 0>>, call.color}

\* C4: blend(x, y, r, g, b, 255) on a pixel of the canvas leaves it exactly
\* (r, g, b, 255), whatever colour and alpha it held, and changes no other
\* pixel.
C4_OpaqueBlend ==
    (Returned({"blend"}) /\ call.color[4] = 255 /\ Inside(call.x0, call.y0)) =>
        /\ ~raised
        /\ Len(canvas.data) = Len(prev)
        /\ PixelAt(canvas.data, canvas.w, call.x0, call.y0)
               = <<call.color[1], call.color[2], call.color[3], 255>>
        /\ OthersUnchanged(call.x0, call.y0)

\* C4 witness: the pixel held another colour with an alpha strictly between
\* 0 and 255.
C4_Witness ==
    /\ Returned({"blend"}) /\ call.color[4] = 255
    /\ Inside(call.x0, call.y0)
    /\ PixelAt(prev, canvas.w, call.x0, call.y0)[4] \in 1..254
    /\ PixelAt(prev, canvas.w, call.x0, call.y0)[1] # call.color[1]
    /\ canvas.w * canvas.h > 1

\* The integers nearest to p / q (two of them at a tie), for q > 0
C5_Nearest(p, q) ==
    {(2 * p + q) \div (2 * q)}
    \cup (IF (2 * p + q) % (2 * q) = 0
          THEN {((2 * p + q) \div (2 * q)) - 1} ELSE {})

\* The "over" operator on bytes: with sa = a / 255 and da = A / 255,
\* oa * 255 = (255 a + A (255 - a)) / 255 and the channel
\* (src sa + dst da (1 - sa)) / oa
\*     = (255 src a + dst A (255 - a)) / (255 a + A (255 - a))
C5_AlphaNum(a, A) == 255 * a + A * (255 - a)
C5_ChannelNum(src, dst, a, A) == 255 * src * a + dst * A * (255 - a)

\* C5: for a pixel of the canvas and 0 < a <= 255, blend stores the alpha
\* oa * 255 and the channels (src * sa + dst * da * (1 - sa)) / oa, each
\* rounded to the nearest integer and clamped to [0, 255].
C5_OverRounded ==
    (Returned({"blend"}) /\ Inside(call.x0, call.y0) /\ call.color[4] \in 1..255)
    => LET old == PixelAt(prev, canvas.w, call.x0, call.y0)
           new == PixelAt(canvas.data, canvas.w, call.x0, call.y0)
           a   == call.color[4]
       IN  /\ new[4] \in C5_Nearest(C5_AlphaNum(a, old[4]), 255)
           /\ \A k \in 1..3 :
                  new[k] \in C5_Nearest(
                                 C5_ChannelNum(call.color[k], old[k], a, old[4]),
                                 C5_AlphaNum(a, old[4]))

\* Two blends of one colour k on pixel (x, y) with alphas a1 then a2, and
\* one blend with alpha a1 + a2, from the same bytearray
C6_Twice(c, x, y, k, a1, a2) ==
    Blend([c EXCEPT !.data = Blend(c, x, y, k[1], k[2], k[3], a1).data],
          x, y, k[1], k[2], k[3], a2).data
C6_Once(c, x, y, k, a1, a2) == Blend(c, x, y, k[1], k[2], k[3], a1 + a2).data

C6_Alphas == {a \in BlendAlphas : a > 0}

\* C6: blending is not additive in alpha.  On every canvas that is idle
\* there are a pixel, a colour and alphas a1, a2 with a1 + a2 <= 255 for
\* which blending twice differs from blending once with a1 + a2.
C6_NotAdditive ==
    pc = "idle" =>
        \E x \in 0..(canvas.w - 1), y \in 0..(canvas.h - 1), k \in Colors,
           a1 \in C6_Alphas, a2 \in C6_Alphas :
            /\ a1 + a2 <= 255
            /\ C6_Twice(canvas, x, y, k, a1, a2)
                   # C6_Once(canvas, x, y, k, a1, a2)

\* C6 witness: the canvas has been blended twice, from new, with one colour
\* on one pixel, and differs from the new canvas blended once with the sum.
C6_Witness ==
    /\ Returned({"blend"})
    /\ nops = 2
    /\ Inside(call.x0, call.y0)
    /\ \E a1 \in C6_Alphas :
           /\ a1 + call.color[4] <= 255
           /\ prev = Blend(NewCanvas(canvas.w, canvas.h), call.x0, call.y0,
                           call.color[1], call.color[2], call.color[3],
                           a1).data
           /\ canvas.data
                  # C6_Once(NewCanvas(canvas.w, canvas.h), call.x0, call.y0,
                            call.color, a1, call.color[4])

(***************************************************************************)
(* PNG export: Canvas.save_png of the screenshot generator and write_png   *)
(* of the icon generator.  The two functions carry their own copies of the *)
(* scanline loop, of chunk() and of the png expression, and so does the    *)
(* model.  zlib.compress and binascii.crc32 are library primitives: crc32  *)
(* is computed (table driven, the 32-bit register kept as two 16-bit       *)
(* halves), and compress is represented by the zlib stream that holds its  *)
(* input in one stored DEFLATE block, header and Adler-32 trailer          *)
(* included, which every inflater expands to the input.                    *)
(***************************************************************************)
\* d[i:j] read from a bytearray
Slice(d, i, j) == SubSeq(d, SliceIndex(i, Len(d)) + 1, SliceIndex(j, Len(d)))

\* the scanline loop with the filter byte left out
RECURSIVE ScanRows_MutNoFilter(_, _, _, _)
ScanRows_MutNoFilter(d, w, y, h) ==
    IF y >= h THEN <<>>
    ELSE Slice(d, y * w * 4, (y + 1) * w * 4) \o ScanRows_MutNoFilter(d, w, y + 1, h)

\* save_png: raw.append(0); raw.extend(self.data[y*w*4:(y+1)*w*4]) for each y
RECURSIVE ScanRows(_, _, _, _)
ScanRows(d, w, y, h) ==
    IF y >= h THEN <<>>
    ELSE (<<0>> \o Slice(d, y * w * 4, (y + 1) * w * 4)) \o ScanRows(d, w, y + 1, h)

\* write_png's scanline loop taking the rows bottom-up
RECURSIVE IconScanRows_MutBottomUp(_, _, _, _)
IconScanRows_MutBottomUp(pix, w, y, h) ==
    IF y >= h THEN <<>>
    ELSE IconScanRows_MutBottomUp(pix, w, y + 1, h)
             \o (<<0>> \o Slice(pix, y * w * 4, y * w * 4 + w * 4))

\* write_png: raw.append(0); start = y*w*4; raw.extend(pix[start:start+w*4])
RECURSIVE IconScanRows(_, _, _, _)
IconScanRows(pix, w, y, h) ==
    IF y >= h THEN <<>>
    ELSE (<<0>> \o Slice(pix, y * w * 4, y * w * 4 + w * 4))
             \o IconScanRows(pix, w, y + 1, h)

\* struct.pack("!I", n) for 0 <= n < 2^31, and for a word held in halves
PackI(n) == <<n \div 16777216, (n \div 65536) % 256, (n \div 256) % 256, n % 256>>
Word(hi, lo) == [hi |-> hi, lo |-> lo]
PackWord(c) == <<c.hi \div 256, c.hi % 256, c.lo \div 256, c.lo % 256>>

\* struct.pack("!IIBBBBB", w, h, 8, 6, 0, 0, 0)
Ihdr(w, h) == PackI(w) \o PackI(h) \o <<8, 6, 0, 0, 0>>

\* bitwise exclusive or of two naturals below 2^w, w a power of two: of
\* their low halves and of their high halves
XorBits[a \in Nat, b \in Nat, w \in Nat] ==
    IF w = 1 THEN (a + b) % 2
    ELSE XorBits[a % Pow2(w \div 2), b % Pow2(w \div 2), w \div 2]
             + Pow2(w \div 2) * XorBits[a \div Pow2(w \div 2), b \div Pow2(w \div 2), w \div 2]

Xor(a, b) == XorBits[a, b, 16]

XorWord(u, v) == Word(Xor(u.hi, v.hi), Xor(u.lo, v.lo))

\* one bit of the reflected CRC-32 (polynomial EDB88320)
CrcBit(c) ==
    IF c.lo % 2 = 1
    THEN Word(Xor(c.hi \div 2, 60856), Xor((c.lo \div 2) + (c.hi % 2) * 32768, 33568))
    ELSE Word(c.hi \div 2, (c.lo \div 2) + (c.hi % 2) * 32768)

RECURSIVE CrcBits(_, _)
CrcBits(c, k) == IF k = 0 THEN c ELSE CrcBit(CrcBits(c, k - 1))

CrcTable == [i \in 0..255 |-> CrcBits(Word(0, i), 8)]

\* the register after one more byte: table[(crc ^ b) & 0xFF] ^ (crc >> 8)
Words == [hi : 0..65535, lo : 0..65535]
CrcByte[c \in Words, b \in 0..255] ==
    XorWord(CrcTable[Xor(c.lo % 256, b)],
            Word(c.hi \div 256, (c.lo \div 256) + (c.hi % 256) * 256))

\* the register c after the bytes lo..hi-1 of bytes, taken in order (the
\* range is halved, so that the evaluation nests as deep as its logarithm)
CrcUpdate[c \in Words, bytes \in Seq(0..255), lo \in Nat, hi \in Nat] ==
    IF lo >= hi THEN c
    ELSE IF hi = lo + 1 THEN CrcByte[c, bytes[lo]]
    ELSE CrcUpdate[CrcUpdate[c, bytes, lo, (lo + hi) \div 2], bytes, (lo + hi) \div 2, hi]

\* binascii.crc32(bytes) & 0xFFFFFFFF
Crc32(bytes) ==
    XorWord(CrcUpdate[Word(65535, 65535), bytes, 1, Len(bytes) + 1], Word(65535, 65535))

\* Adler-32 of the zlib trailer: the two 16-bit sums
Sums == [a : 0..65520, b : 0..65520]
AdlerByte[s \in Sums, v \in 0..255] ==
    [a |-> (s.a + v) % 65521, b |-> (s.b + s.a + v) % 65521]

AdlerUpdate[s \in Sums, bytes \in Seq(0..255), lo \in Nat, hi \in Nat] ==
    IF lo >= hi THEN s
    ELSE IF hi = lo + 1 THEN AdlerByte[s, bytes[lo]]
    ELSE AdlerUpdate[AdlerUpdate[s, bytes, lo, (lo + hi) \div 2], bytes, (lo + hi) \div 2, hi]

AdlerWord(s) == Word(s.b, s.a)
Adler32(bytes) == AdlerWord(AdlerUpdate[[a |-> 1, b |-> 0], bytes, 1, Len(bytes) + 1])

\* zlib.compress(bytes(raw), level): header 78 01, one final stored block
\* (LEN and its complement, little endian), Adler-32 of the input
Compress(bytes) ==
    <<120, 1, 1, Len(bytes) % 256, Len(bytes) \div 256,
      255 - (Len(bytes) % 256), 255 - (Len(bytes) \div 256)>>
        \o bytes \o PackWord(Adler32(bytes))

\* the chunk type tags and the signature b"\x89PNG\r\n\x1a\n"
TagIHDR == <<73, 72, 68, 82>>
TagIDAT == <<73, 68, 65, 84>>
TagIEND == <<73, 69, 78, 68>>
Signature == <<137, 80, 78, 71, 13, 10, 26, 10>>

\* chunk() with the CRC taken over the payload alone
Chunk_MutCrcPayload(typ, data) ==
    PackI(Len(data)) \o typ \o data \o PackWord(Crc32(data))

\* save_png's chunk(typ, data)
Chunk(typ, data) ==
    PackI(Len(data)) \o typ \o data \o PackWord(Crc32(typ \o data))

\* save_png's png, from the scanline stream
Png(w, h, scan) ==
    Signature \o Chunk(TagIHDR, Ihdr(w, h)) \o Chunk(TagIDAT, Compress(scan))
              \o Chunk(TagIEND, <<>>)

\* write_png's chunk(typ, data)
IconChunk(typ, data) ==
    PackI(Len(data)) \o typ \o data \o PackWord(Crc32(typ \o data))

\* write_png's png, from the scanline stream
IconPng(w, h, scan) ==
    Signature \o IconChunk(TagIHDR, Ihdr(w, h))
              \o IconChunk(TagIDAT, Compress(scan))
              \o IconChunk(TagIEND, <<>>)

\* Sizes of the images exported, and the pixels they are made of: a cleared
\* pixel, opaque RED_OBS and a blended CYAN
PngMaxW == 2
PngMaxH == 2
PngPixels == {<<0, 0, 0, 0>>, <<255, 90, 124, 255>>, <<45, 247, 254, 110>>}

\* the bytearrays of n pixels
PixBuffers(n) ==
    {[k \in 1..(4 * n) |-> f[((k - 1) \div 4) + 1][((k - 1) % 4) + 1]] :
        f \in [1..n -> PngPixels]}

InitPng ==
    /\ canvas \in UNION {{[w |-> cw, h |-> ch, data |-> d] : d \in PixBuffers(cw * ch)} :
                            cw \in 1..PngMaxW, ch \in 1..PngMaxH}
    /\ raised = FALSE
    /\ pc = "idle"
    /\ call = NoCall
    /\ prev = <<>>
    /\ nops = 0
    /\ raw = <<>>
    /\ png = <<>>
    /\ runs = <<>>
    /\ line = <<>>
    /\ lcg = <<>>

\* An export: scan is the stream handed to the compressor, file the bytes
\* given to write_bytes, pixels the buffer that was read
Export(cl, pixels, scan, file) ==
    /\ pc = "idle"
    /\ call' = cl
    /\ prev' = pixels
    /\ raw' = scan
    /\ png' = file
    /\ pc' = "returned"
    /\ UNCHANGED <<canvas, raised, nops, runs, line, lcg>>

\* Canvas.save_png
SavePng ==
    Export([op |-> "save_png", w |-> canvas.w, h |-> canvas.h], canvas.data,
           ScanRows(canvas.data, canvas.w, 0, canvas.h),
           Png(canvas.w, canvas.h, ScanRows(canvas.data, canvas.w, 0, canvas.h)))

\* write_png(path, size): w = h = size, pix as the artwork left it
WritePng ==
    \E size \in 1..Min(PngMaxW, PngMaxH) : \E pix \in PixBuffers(size * size) :
        Export([op |-> "write_png", w |-> size, h |-> size], pix,
               IconScanRows(pix, size, 0, size),
               IconPng(size, size, IconScanRows(pix, size, 0, size)))

NextPng ==
    \/ SavePng
    \/ WritePng
    \/ Return

SpecPng == InitPng /\ [][NextPng]_vars


(***************************************************************************)
(* Properties of the PNG export.  The file is taken apart again by a       *)
(* reader of its own: chunks by their length fields, the IDAT payload      *)
(* inflated from its stored block, the filter bytes dropped.               *)
(***************************************************************************)
Exported == pc = "returned" /\ call.op \in {"save_png", "write_png"}

\* the number four bytes spell, most significant first
BigEndian(b) == ((b[1] * 256 + b[2]) * 256 + b[3]) * 256 + b[4]

\* the chunk that starts after off bytes of file: its fields, given its length
ChunkType(file, off) == SubSeq(file, off + 5, off + 8)
ChunkLen(file, off) == BigEndian(SubSeq(file, off + 1, off + 4))
ChunkPayload(file, off) == SubSeq(file, off + 9, off + 8 + ChunkLen(file, off))
ChunkCrc(file, off) ==
    SubSeq(file, off + 9 + ChunkLen(file, off), off + 12 + ChunkLen(file, off))
ChunkEnd(file, off) == off + 12 + ChunkLen(file, off)

\* IHDR is at 8 and 25 bytes long, so IDAT is at 33
IdatAt == 8 + 12 + 13

\* inflate of a zlib stream made of one final stored block; <<-1>> if the
\* stream is anything else or its checksum is wrong
StoredLen(z) == z[4] + 256 * z[5]
Inflate(z) ==
    IF /\ Len(z) >= 11
       /\ z[1] = 120
       /\ (z[1] * 256 + z[2]) % 31 = 0
       /\ z[3] = 1
       /\ z[6] = 255 - z[4]
       /\ z[7] = 255 - z[5]
       /\ Len(z) = 11 + StoredLen(z)
       /\ SubSeq(z, Len(z) - 3, Len(z)) = PackWord(Adler32(SubSeq(z, 8, 7 + StoredLen(z))))
    THEN SubSeq(z, 8, 7 + StoredLen(z))
    ELSE <<-1>>

\* the scanlines of a w by h image with their filter bytes dropped; <<-1>>
\* if the stream is not h scanlines of filter type 0
Unfilter(scan, w, h) ==
    IF /\ Len(scan) = h * (1 + 4 * w)
       /\ \A y \in 0..(h - 1) : scan[y * (1 + 4 * w) + 1] = 0
    THEN [k \in 1..(4 * w * h) |->
             scan[((k - 1) \div (4 * w)) * (1 + 4 * w) + 2 + ((k - 1) % (4 * w))]]
    ELSE <<-1>>

\* what a decoder makes of the file: size from IHDR, pixels from IDAT
Decode(file) ==
    Unfilter(Inflate(ChunkPayload(file, IdatAt)),
             BigEndian(SubSeq(file, 17, 20)), BigEndian(SubSeq(file, 21, 24)))

\* C7: decoding the file an export wrote (inflating its IDAT payload and
\* dropping the filter byte of each scanline) gives back exactly the RGBA
\* bytes of the buffer that was exported, in their order.
C7_RoundTrip == Exported => Decode(png) = prev

\* a 2 by 2 canvas whose two rows differ, saved
C7_Witness ==
    /\ pc = "returned" /\ call.op = "save_png"
    /\ call.w = 2 /\ call.h = 2
    /\ SubSeq(prev, 1, 8) # SubSeq(prev, 9, 16)
    /\ Decode(png) = prev

\* a chunk as the format frames it: big-endian payload length, type,
\* payload, big-endian CRC-32 of type and payload
WellFramed(file, off, typ) ==
    /\ Len(file) >= ChunkEnd(file, off)
    /\ ChunkType(file, off) = typ
    /\ ChunkCrc(file, off) = PackWord(Crc32(typ \o ChunkPayload(file, off)))

\* C8: the bytes written are the signature 89 50 4E 47 0D 0A 1A 0A, one
\* IHDR chunk, one IDAT chunk and one empty IEND chunk, nothing else; every
\* chunk is big-endian length, type, payload, big-endian CRC-32 of type and
\* payload; the IHDR payload is width, height, 8, 6, 0, 0, 0 (192 by 192
\* for the icon, 1280 by 720 for the wide screenshot).
C8_Framing ==
    /\ Exported =>
        /\ SubSeq(png, 1, 8) = <<137, 80, 78, 71, 13, 10, 26, 10>>
        /\ WellFramed(png, 8, <<73, 72, 68, 82>>)
        /\ ChunkLen(png, 8) = 13
        /\ BigEndian(SubSeq(png, 17, 20)) = call.w
        /\ BigEndian(SubSeq(png, 21, 24)) = call.h
        /\ SubSeq(png, 25, 29) = <<8, 6, 0, 0, 0>>
        /\ WellFramed(png, IdatAt, <<73, 68, 65, 84>>)
        /\ WellFramed(png, ChunkEnd(png, IdatAt), <<73, 69, 78, 68>>)
        /\ ChunkLen(png, ChunkEnd(png, IdatAt)) = 0
        /\ Len(png) = ChunkEnd(png, IdatAt) + 12
    /\ Ihdr(192, 192) = <<0, 0, 0, 192, 0, 0, 0, 192, 8, 6, 0, 0, 0>>
    /\ Ihdr(1280, 720) = <<0, 0, 5, 0, 0, 0, 2, 208, 8, 6, 0, 0, 0>>

\* a canvas wider than high, saved with pixels that are not all clear
C8_Witness ==
    /\ pc = "returned" /\ call.op = "save_png"
    /\ call.w = 2 /\ call.h = 1
    /\ prev # ZeroBytes(8)
    /\ Len(png) = IdatAt + 12 + 11 + 9 + 12

\* C9: the stream handed to the compressor is height * (1 + 4*width) bytes
\* long; for each row y the byte at offset y*(1 + 4*width) is 0 and the
\* 4*width bytes after it are row y of the pixel buffer, rows top to bottom.
C9_Scanlines ==
    Exported =>
        /\ Len(raw) = call.h * (1 + 4 * call.w)
        /\ \A y \in 0..(call.h - 1) :
              /\ raw[y * (1 + 4 * call.w) + 1] = 0
              /\ SubSeq(raw, y * (1 + 4 * call.w) + 2, (y + 1) * (1 + 4 * call.w))
                     = SubSeq(prev, y * 4 * call.w + 1, (y + 1) * 4 * call.w)

\* an icon of size 2 whose two rows differ, written
C9_Witness ==
    /\ pc = "returned" /\ call.op = "write_png"
    /\ call.w = 2 /\ call.h = 2
    /\ SubSeq(prev, 1, 8) # SubSeq(prev, 9, 16)
    /\ Len(raw) = 18
    /\ SubSeq(raw, 11, 18) = SubSeq(prev, 9, 16)

(***************************************************************************)
(* The pseudo-random generator and the two generators drawn from it.       *)
(* LCG.state is a natural below 2^32, kept as limbs; next() returns the    *)
(* double state / 0xFFFFFFFF.  A decimal literal of the source is the      *)
(* double nearest to it, which the correctly rounded quotient n / 100 is.  *)
(***************************************************************************)
LcgMult == 1664525
LcgInc == 1013904223
StarDensity == 600

\* 0xFFFFFFFF, and a & 0xFFFFFFFF for a natural a
Mask32 == BSub[BShl[<<1>>, 32], <<1>>]
BLow32[a \in Bigs] == BSub[a, BShl[BShr[a, 32], 32]]

\* LCG.__init__: self.state = seed & 0xFFFFFFFF
LcgInit(seed) ==
    IF seed >= 0 THEN BFromNat[seed]
    ELSE BSub[BShl[<<1>>, 32], BFromNat[0 - seed]]

\* LCG.next: the state it leaves, and the value it returns from that state
LcgStep[state \in Bigs] == BLow32[BAdd[BMul[state, BFromNat[LcgMult]], BFromNat[LcgInc]]]
LcgUnit[state \in Bigs] == FDiv[FFromBig[state], FFromBig[Mask32]]

\* the state after k calls of next
LcgSkip[state \in Bigs, k \in Nat] == IF k = 0 THEN state ELSE LcgStep[LcgSkip[state, k - 1]]

\* LCG.int_range(lo, hi), state being the state its call of next left
IntRange(state, lo, hi) == lo + FTrunc[FMul[LcgUnit[state], FInt[hi - lo]]]

\* the literal 0.nn
Dec(n) == FDiv[FInt[n], FInt[100]]

\* int(n * 0.nn)
Scaled(n, hundredths) == FTrunc[FMul[FInt[n], Dec(hundredths)]]

\* the canvas with the bytearray an operation left
WithData(c, res) == [c EXCEPT !.data = res.data]

\* draw_stars, one pass of its loop: s1..s4 are the states the four calls
\* of next leave
StarBody[c \in Canvases, sky_h \in Int, s1, s2, s3, s4 \in Bigs, bright \in Int] ==
    IF FGt(LcgUnit[s4], Dec(65))
    THEN CanvasSet(c, FTrunc[FMul[LcgUnit[s1], FInt[c.w]]],
                   FTrunc[FMul[LcgUnit[s2], FInt[sky_h]]], 46, bright, 255, bright)
    ELSE CanvasSet(c, FTrunc[FMul[LcgUnit[s1], FInt[c.w]]],
                   FTrunc[FMul[LcgUnit[s2], FInt[sky_h]]], bright, bright, bright, bright)

StarPass(c, sky_h, state) ==
    WithData(c, StarBody[c, sky_h, LcgSkip[state, 1], LcgSkip[state, 2],
                         LcgSkip[state, 3], LcgSkip[state, 4],
                         IntRange(LcgSkip[state, 3], 80, 220)])

\* draw_buildings, the window loops: a window is lit if wrng.next() > 0.52
\* and takes its colour from one more wrng.next() > 0.5; ws is the state of
\* wrng before the window at column wx
WinSet(c, ws, wx, wy) ==
    WithData(c, IF FGt(LcgUnit[ws], Dec(50))
                THEN CanvasSet(c, wx, wy, 180, 220, 90, 130)
                ELSE CanvasSet(c, wx, wy, 46, 248, 255, 110))

WinCols[c \in Canvases, ws \in Bigs, wx \in Int, xend \in Int, wy \in Int] ==
    IF wx >= xend THEN [c |-> c, rng |-> ws]
    ELSE IF FGt(LcgUnit[LcgStep[ws]], Dec(52))
    THEN WinCols[WinSet(c, LcgSkip[ws, 2], wx, wy), LcgSkip[ws, 2], wx + 9, xend, wy]
    ELSE WinCols[c, LcgStep[ws], wx + 9, xend, wy]

WinRows[c \in Canvases, ws \in Bigs, wy \in Int, yend \in Int, x0 \in Int, xend \in Int] ==
    IF wy >= yend THEN c
    ELSE WinRows[WinCols[c, ws, x0, xend, wy].c, WinCols[c, ws, x0, xend, wy].rng,
                 wy + 9, yend, x0, xend]

\* the silhouette colour of a layer
LayerColor(layer) == IF layer = 0 THEN <<18, 12, 52>> ELSE <<24, 17, 68>>

\* draw_buildings, one pass of its while loop: the building at x with its
\* windows, k the layer's colour, s3 and s4 the states the third and fourth
\* call of rng.next leave
BuildingBody[c \in Canvases, k \in Seq(Int), x, ground_y, bw, bh \in Int, s3, s4 \in Bigs] ==
    [c   |-> WinRows[WithData(c, FillRect(c, x, ground_y - bh, x + bw, ground_y,
                                          k[1], k[2], k[3], 255)),
                     LcgInit(IntRange(s3, 0, 99999)),
                     ground_y - bh + 5, ground_y - 5, x + 4, x + bw - 4],
     x   |-> x + bw + IntRange(s4, 0, 8),
     rng |-> s4]

\* one pass with the cursor moved by the gap alone, x += rng.int_range(0, 8)
BuildingPass_MutNoWidth(c, layer, x, sky_top, ground_y, state) ==
    [BuildingBody[c, LayerColor(layer), x, ground_y,
                  IntRange(LcgSkip[state, 1], Scaled(c.w, 4), Scaled(c.w, 12)),
                  IntRange(LcgSkip[state, 2], Scaled(ground_y - sky_top, 12),
                           Scaled(ground_y - sky_top, 60)),
                  LcgSkip[state, 3], LcgSkip[state, 4]]
        EXCEPT !.x = x + IntRange(LcgSkip[state, 4], 0, 8)]

BuildingPass(c, layer, x, sky_top, ground_y, state) ==
    BuildingBody[c, LayerColor(layer), x, ground_y,
                 IntRange(LcgSkip[state, 1], Scaled(c.w, 4), Scaled(c.w, 12)),
                 IntRange(LcgSkip[state, 2], Scaled(ground_y - sky_top, 12),
                          Scaled(ground_y - sky_top, 60)),
                 LcgSkip[state, 3], LcgSkip[state, 4]]

\* The calls made: a starfield over a strip of sky and a skyline, with the
\* seeds of the screenshots and others
DrawCalls ==
    {[fn |-> "draw_stars", w |-> 60, h |-> 2, sky |-> 20, ground |-> 0, seed |-> sd] :
        sd \in {42, 12345, 54321}}
    \cup {[fn |-> "draw_buildings", w |-> 100, h |-> 24, sky |-> 1, ground |-> 23,
           seed |-> sd] : sd \in {2, 77}}

\* What the canvas holds before the call: nothing, or an opaque dark fill
Backgrounds == {<<0, 0, 0, 0>>, <<5, 9, 25, 255>>}

Painted(cw, ch, k) ==
    [w |-> cw, h |-> ch, data |-> Repeat(k, cw * ch)]

\* the activation of a call on its own canvas, before its first statement
Activation(dc, k) ==
    [fn |-> dc.fn, c |-> Painted(dc.w, dc.h, k), sky |-> dc.sky,
     ground |-> dc.ground, seed |-> dc.seed,
     pc |-> IF dc.fn = "draw_stars" THEN "call" ELSE "layer",
     rng |-> <<>>, count |-> 0, i |-> 0, layer |-> 0, x |-> 0]

Runs == 1..2

\* the same call made twice, on two canvases of the same size and contents
InitStars ==
    /\ runs \in {[r \in Runs |-> Activation(dc, k)] : dc \in DrawCalls, k \in Backgrounds}
    /\ canvas = NewCanvas(1, 1)
    /\ raised = FALSE
    /\ pc = "idle"
    /\ call = NoCall
    /\ prev = <<>>
    /\ nops = 0
    /\ raw = <<>>
    /\ png = <<>>
    /\ line = <<>>
    /\ lcg = <<>>

Advance(r, run) ==
    /\ runs' = [runs EXCEPT ![r] = run]
    /\ UNCHANGED <<canvas, raised, pc, call, prev, nops, raw, png, line, lcg>>

\* draw_stars seeded from the generator state another activation left
\* behind, as with a generator shared by the module
StarsEnter_MutShared(r) ==
    /\ runs[r].fn = "draw_stars"
    /\ runs[r].pc = "call"
    /\ Advance(r, [runs[r] EXCEPT
                     !.rng = IF runs[3 - r].rng # <<>> THEN runs[3 - r].rng
                             ELSE LcgInit(runs[r].seed),
                     !.count = (runs[r].c.w * runs[r].sky) \div StarDensity,
                     !.pc = "for"])

\* draw_stars: rng = LCG(seed); count = c.w * sky_h // 600
StarsEnter(r) ==
    /\ runs[r].fn = "draw_stars"
    /\ runs[r].pc = "call"
    /\ Advance(r, [runs[r] EXCEPT
                     !.rng = LcgInit(runs[r].seed),
                     !.count = (runs[r].c.w * runs[r].sky) \div StarDensity,
                     !.pc = "for"])

\* for _ in range(count): one star
StarsIter(r) ==
    /\ runs[r].pc = "for"
    /\ runs[r].i < runs[r].count
    /\ Advance(r, [runs[r] EXCEPT
                     !.c = StarPass(runs[r].c, runs[r].sky, runs[r].rng),
                     !.rng = LcgSkip[runs[r].rng, 4],
                     !.i = runs[r].i + 1])

StarsReturn(r) ==
    /\ runs[r].pc = "for"
    /\ runs[r].i >= runs[r].count
    /\ Advance(r, [runs[r] EXCEPT !.pc = "done"])

\* for layer in range(2): rng = LCG(seed + layer * 1000); x = 0
LayerEnter(r) ==
    /\ runs[r].pc = "layer"
    /\ runs[r].layer < 2
    /\ Advance(r, [runs[r] EXCEPT
                     !.rng = LcgInit(runs[r].seed + runs[r].layer * 1000),
                     !.x = 0,
                     !.i = 0,
                     !.pc = "while"])

\* while x < c.w: one building; i counts the buildings of the layer
Activations == [fn : STRING, c : Canvases, sky : Int, ground : Int, seed : Int, pc : STRING, rng : Bigs, count : Int, i : Int, layer : Int, x : Int]
Passes == [c : Canvases, x : Int, rng : Bigs]
BuildingSet[run \in Activations, b \in Passes] ==
    [run EXCEPT !.c = b.c, !.x = b.x, !.rng = b.rng, !.i = run.i + 1]

BuildingIter(r) ==
    /\ runs[r].pc = "while"
    /\ runs[r].x < runs[r].c.w
    /\ Advance(r, BuildingSet[runs[r], BuildingPass(runs[r].c, runs[r].layer, runs[r].x,
                                                    runs[r].sky, runs[r].ground,
                                                    runs[r].rng)])

LayerExit(r) ==
    /\ runs[r].pc = "while"
    /\ runs[r].x >= runs[r].c.w
    /\ Advance(r, [runs[r] EXCEPT !.layer = runs[r].layer + 1, !.pc = "layer"])

BuildingsReturn(r) ==
    /\ runs[r].pc = "layer"
    /\ runs[r].layer >= 2
    /\ Advance(r, [runs[r] EXCEPT !.pc = "done"])

NextStars ==
    \/ \E r \in Runs : StarsEnter(r)
    \/ \E r \in Runs : StarsIter(r)
    \/ \E r \in Runs : StarsReturn(r)
    \/ \E r \in Runs : LayerEnter(r)
    \/ \E r \in Runs : BuildingIter(r)
    \/ \E r \in Runs : LayerExit(r)
    \/ \E r \in Runs : BuildingsReturn(r)

SpecStars == InitStars /\ [][NextStars]_vars

\* The skyline alone: calls with the seeds of the two screenshots, on a
\* canvas as wide as the generator's least building needs (int(w * 0.04) = 1)
\* and on a wider one
SkylineCalls ==
    {[fn |-> "draw_buildings", w |-> cw, h |-> 24, sky |-> 1, ground |-> 23,
      seed |-> sd] : cw \in {25, 100}, sd \in {77, 99}}

InitBuildings ==
    /\ runs \in {[r \in Runs |-> Activation(dc, k)] : dc \in SkylineCalls, k \in Backgrounds}
    /\ canvas = NewCanvas(1, 1)
    /\ raised = FALSE
    /\ pc = "idle"
    /\ call = NoCall
    /\ prev = <<>>
    /\ nops = 0
    /\ raw = <<>>
    /\ png = <<>>
    /\ line = <<>>
    /\ lcg = <<>>

NextBuildings ==
    \/ \E r \in Runs : LayerEnter(r)
    \/ \E r \in Runs : BuildingIter(r)
    \/ \E r \in Runs : LayerExit(r)
    \/ \E r \in Runs : BuildingsReturn(r)

\* the interpreter runs a call to its end: an activation that can step does
SpecBuildings == InitBuildings /\ [][NextBuildings]_vars /\ WF_vars(NextBuildings)

(***************************************************************************)
(* Properties of the generators.  The recurrence is recomputed on 16-bit   *)
(* halves: 1664525 = 25 * 65536 + 26125, 1013904223 = 15470 * 65536 + 62303*)
(***************************************************************************)
\* (state * 1664525 + 1013904223) mod 2^32 on the halves of state
LowHalf(w) == w.lo * 26125 + 62303
Recurrence[w \in Words] ==
    Word((w.hi * 26125 + w.lo * 25 + 15470 + (LowHalf(w) \div 65536)) % 65536,
         LowHalf(w) % 65536)

\* k applications of it
Iterated[w \in Words, k \in Nat] ==
    IF k = 0 THEN w
    ELSE IF k = 1 THEN Recurrence[w]
    ELSE Iterated[Iterated[w, k \div 2], k - (k \div 2)]

\* the limbs of a word, and the word a seed below 2^31 masks to
Limbs(w) == BAdd[BShl[BFromNat[w.hi], 16], BFromNat[w.lo]]
SeedWord(seed) == Word(seed \div 65536, seed % 65536)

\* the seed the generator of an activation was built from
SeedOf(run) ==
    IF run.fn = "draw_stars" THEN run.seed ELSE run.seed + run.layer * 1000

\* C10: two activations of draw_stars (of draw_buildings) with the same
\* seed and arguments, on canvases of the same size and initial contents,
\* hold identical buffers (and identical locals) whenever they have made
\* the same progress, at their return in particular; and the generator of
\* each is at state' = (state * 1664525 + 1013904223) mod 2^32 iterated from
\* its explicit seed, four draws per pass made.
C10_Deterministic ==
    runs # <<>> =>
        /\ (/\ runs[1].pc = runs[2].pc
            /\ runs[1].layer = runs[2].layer
            /\ runs[1].i = runs[2].i) => runs[1] = runs[2]
        /\ \A r \in Runs :
              runs[r].pc \in {"for", "while"} =>
                  runs[r].rng = Limbs(Iterated[SeedWord(SeedOf(runs[r])), 4 * runs[r].i])

\* both activations returned with the same buffer, on which the calls drew
\* (a pixel is neither background)
C10_Witness ==
    /\ runs # <<>>
    /\ \A r \in Runs : runs[r].pc = "done"
    /\ runs[1].c.data = runs[2].c.data
    /\ \E p \in 0..(runs[1].c.w * runs[1].c.h - 1) :
          SubSeq(runs[1].c.data, 4 * p + 1, 4 * p + 4) \notin Backgrounds

(***************************************************************************)
(* The icon's thick-line routine, write_png's nested line(): one           *)
(* activation with its arguments, its locals steps, i, x, y and the pixel  *)
(* buffer pix it stamps disks on.  pc is "call" before the first           *)
(* statement, "for" in the loop and "done" after it.                       *)
(***************************************************************************)
\* abs and max on floats
FAbs[x \in Floats] == [x EXCEPT !.s = 1]
FMax[x, y \in Floats] == IF FCmp[y, x] > 0 THEN y ELSE x

\* scale = w / 180
IconScale[size \in Int] == FDiv[FInt[size], FInt[180]]

\* thickness = max(1, int(5 * scale))
Thickness(size) == Max(1, FTrunc[FMul[FInt[5], IconScale[size]]])

\* c = (235, 246, 255, 255)
StrokeColor == <<235, 246, 255, 255>>

\* The five strokes of the runner, as the multiples of scale passed for
\* x0, y0, x1, y1
LineCalls ==
    {<<92, 70, 84, 98>>, <<84, 98, 62, 118>>, <<84, 98, 109, 124>>,
     <<87, 82, 112, 86>>, <<87, 84, 68, 72>>}

\* Icon sizes, and what the gradient left in pix: its colour at the centre
\* or at the corners
IconSizes == {18, 36}
IconFills == {<<25, 45, 95, 255>>, <<5, 9, 28, 255>>}

\* steps = int(max(abs(x1 - x0), abs(y1 - y0)) * 2) + 1
LineSteps[x0, y0, x1, y1 \in Floats] ==
    FTrunc[FMul[FMax[FAbs[FSub[x1, x0]], FAbs[FSub[y1, y0]]], FInt[2]]] + 1

\* p = i / steps; x = x0 + (x1 - x0) * p (and y likewise)
LineSample[a0, a1 \in Floats, i, steps \in Int] ==
    FAdd[a0, FMul[FSub[a1, a0], FDiv[FInt[i], FInt[steps]]]]

\* (xx - x) ** 2 + (yy - y) ** 2 <= t * t, v ** 2 taken as the correctly
\* rounded square v * v (the library's pow may differ from it in the last
\* bit, which decides a pixel only if it lies on the rim of the disk)
InDisk[x, y \in Floats, t, xx, yy \in Int] ==
    FCmp[FAdd[FMul[FSub[FInt[xx], x], FSub[FInt[xx], x]],
              FMul[FSub[FInt[yy], y], FSub[FInt[yy], y]]],
         FInt[t * t]] <= 0

\* set_px's test 0 <= x < w and 0 <= y < h
PxInBounds(w, h, x, y) == 0 <= x /\ x < w /\ 0 <= y /\ y < h

\* the pixels set_px writes for the sample (x, y): those of the window
\* range(int(x - t), int(x + t) + 1) by range(int(y - t), int(y + t) + 1)
\* that lie in the disk and on the icon
StampHits[w, h \in Int, x, y \in Floats, t \in Int] ==
    {q \in (FTrunc[FSub[x, FInt[t]]]..FTrunc[FAdd[x, FInt[t]]])
              \X (FTrunc[FSub[y, FInt[t]]]..FTrunc[FAdd[y, FInt[t]]]) :
        InDisk[x, y, t, q[1], q[2]] /\ PxInBounds(w, h, q[1], q[2])}

\* pix after pix[i : i + 4] = bytes(color) for each of them
SetPixels[pix \in Buffers, w \in Int, hits \in SUBSET (Int \X Int), color \in Buffers] ==
    [k \in 1..Len(pix) |->
        IF <<((k - 1) \div 4) % w, ((k - 1) \div 4) \div w>> \in hits
        THEN color[((k - 1) % 4) + 1]
        ELSE pix[k]]

Stamp(pix, w, h, x, y, t, color) == SetPixels[pix, w, StampHits[w, h, x, y, t], color]

\* the activation line(q[1] * scale, ..., q[4] * scale, thickness, c) of
\* write_png(path, size)
LineActivation(size, q, fill) ==
    [w |-> size, h |-> size, pix |-> Repeat(fill, size * size),
     x0 |-> FMul[FInt[q[1]], IconScale[size]], y0 |-> FMul[FInt[q[2]], IconScale[size]],
     x1 |-> FMul[FInt[q[3]], IconScale[size]], y1 |-> FMul[FInt[q[4]], IconScale[size]],
     t |-> Thickness(size), color |-> StrokeColor,
     steps |-> 0, i |-> 0, x |-> FZero, y |-> FZero, pc |-> "call"]

InitLine ==
    /\ line \in {LineActivation(size, q, fill) :
                    size \in IconSizes, q \in LineCalls, fill \in IconFills}
    /\ canvas = NewCanvas(1, 1)
    /\ raised = FALSE
    /\ pc = "idle"
    /\ call = NoCall
    /\ prev = <<>>
    /\ nops = 0
    /\ raw = <<>>
    /\ png = <<>>
    /\ runs = <<>>
    /\ lcg = <<>>

LineAdvance(l) ==
    /\ line' = l
    /\ UNCHANGED <<canvas, raised, pc, call, prev, nops, raw, png, runs, lcg>>

\* steps = int(max(abs(x1 - x0), abs(y1 - y0)) * 2) + 1
LineEnter ==
    /\ line.pc = "call"
    /\ LineAdvance([line EXCEPT
                      !.steps = LineSteps[line.x0, line.y0, line.x1, line.y1],
                      !.i = 0,
                      !.pc = "for"])

\* for i in range(steps + 1): the sample point and its disk
LineIter ==
    /\ line.pc = "for"
    /\ line.i <= line.steps
    /\ LineAdvance([line EXCEPT
                      !.x = LineSample[line.x0, line.x1, line.i, line.steps],
                      !.y = LineSample[line.y0, line.y1, line.i, line.steps],
                      !.pix = Stamp(line.pix, line.w, line.h,
                                    LineSample[line.x0, line.x1, line.i, line.steps],
                                    LineSample[line.y0, line.y1, line.i, line.steps],
                                    line.t, line.color),
                      !.i = line.i + 1])

LineReturn ==
    /\ line.pc = "for"
    /\ line.i > line.steps
    /\ LineAdvance([line EXCEPT !.pc = "done"])

NextLine == LineEnter \/ LineIter \/ LineReturn

SpecLine == InitLine /\ [][NextLine]_vars

(***************************************************************************)
(* Properties of the thick-line routine.                                   *)
(***************************************************************************)
\* the square of the distance between the samples i and i + 1
SampleGapSq[x0, y0, x1, y1 \in Floats, i, steps \in Int] ==
    FAdd[FMul[FSub[LineSample[x0, x1, i + 1, steps], LineSample[x0, x1, i, steps]],
              FSub[LineSample[x0, x1, i + 1, steps], LineSample[x0, x1, i, steps]]],
         FMul[FSub[LineSample[y0, y1, i + 1, steps], LineSample[y0, y1, i, steps]],
              FSub[LineSample[y0, y1, i + 1, steps], LineSample[y0, y1, i, steps]]]]

\* 0.5 squared
HalfSq == FDiv[FInt[1], FInt[4]]

\* C11: once line() has chosen steps, any two consecutive sample points
\* (at i / steps and (i + 1) / steps along the segment) are at most 0.5
\* pixel apart.
C11_HalfPixel ==
    (line # <<>> /\ line.pc = "for") =>
        \A i \in 0..(line.steps - 1) :
            FCmp[SampleGapSq[line.x0, line.y0, line.x1, line.y1, i, line.steps],
                 HalfSq] <= 0

(***************************************************************************)
(* Termination of draw_buildings.                                          *)
(***************************************************************************)
\* a pass of the while loop moves the cursor x forward
CursorAdvances ==
    \A r \in Runs :
        (runs[r].pc = "while" /\ runs'[r].pc = "while"
            /\ runs'[r].i = runs[r].i + 1) => runs'[r].x > runs[r].x

\* C12: on a canvas with int(w * 0.04) >= 1, in each of the two layers the
\* cursor x strictly increases on every pass of "while x < c.w", the loop
\* has made at most w passes, and draw_buildings returns.
C12_Terminates ==
    /\ [][CursorAdvances]_vars
    /\ [](\A r \in Runs : Scaled(runs[r].c.w, 4) >= 1 /\ runs[r].i <= runs[r].c.w)
    /\ <>(\A r \in Runs : runs[r].pc = "done")

\* a skyline returned on the narrowest canvas, the other in its second layer
C12_Witness ==
    /\ runs # <<>>
    /\ runs[1].fn = "draw_buildings"
    /\ runs[1].c.w = 25
    /\ runs[1].pc = "done"
    /\ runs[2].pc = "while" /\ runs[2].layer = 1 /\ runs[2].i > 1

(***************************************************************************)
(* The generator on its own: an LCG object, the calls made on it one after *)
(* the other, and what the last call returned.  v is the value next()      *)
(* returned, n the integer made from it over lo..hi.                       *)
(***************************************************************************)
MaxCalls == 4

\* the seeds of the call sites and of the defaults, and one whose first
\* step leaves the state 0xFFFFFFFF
LcgSeeds == {42, 77, 99, 12345, 54321, 653637408}

\* the ranges asked of int_range: the gap, the brightness, the window seed
Ranges == {<<0, 8>>, <<80, 220>>, <<0, 99999>>}

\* c.w and sky_h of a starfield
Extents == {60, 1280}

\* LCG.__init__
LcgObject(seed) ==
    [state |-> LcgInit(seed), op |-> "init", lo |-> 0, hi |-> 0, v |-> FZero,
     n |-> 0, calls |-> 0]

InitLcg ==
    /\ lcg \in {LcgObject(sd) : sd \in LcgSeeds}
    /\ canvas = NewCanvas(1, 1)
    /\ raised = FALSE
    /\ pc = "idle"
    /\ call = NoCall
    /\ prev = <<>>
    /\ nops = 0
    /\ raw = <<>>
    /\ png = <<>>
    /\ runs = <<>>
    /\ line = <<>>

LcgReturn(l) ==
    /\ lcg' = l
    /\ UNCHANGED <<canvas, raised, pc, call, prev, nops, raw, png, runs, line>>

\* LCG.next
LcgNext ==
    /\ lcg.calls < MaxCalls
    /\ LcgReturn([lcg EXCEPT !.state = LcgStep[lcg.state], !.op = "next",
                             !.v = LcgUnit[LcgStep[lcg.state]],
                             !.calls = lcg.calls + 1])

\* LCG.int_range(lo, hi): lo + int(self.next() * (hi - lo))
LcgIntRange ==
    /\ lcg.calls < MaxCalls
    /\ \E q \in Ranges :
          LcgReturn([lcg EXCEPT !.state = LcgStep[lcg.state], !.op = "int_range",
                                !.lo = q[1], !.hi = q[2],
                                !.v = LcgUnit[LcgStep[lcg.state]],
                                !.n = IntRange(LcgStep[lcg.state], q[1], q[2]),
                                !.calls = lcg.calls + 1])

\* draw_stars: x = int(rng.next() * c.w), y = int(rng.next() * sky_h)
StarCoord ==
    /\ lcg.calls < MaxCalls
    /\ \E ext \in Extents :
          LcgReturn([lcg EXCEPT !.state = LcgStep[lcg.state], !.op = "coord",
                                !.lo = 0, !.hi = ext,
                                !.v = LcgUnit[LcgStep[lcg.state]],
                                !.n = FTrunc[FMul[LcgUnit[LcgStep[lcg.state]], FInt[ext]]],
                                !.calls = lcg.calls + 1])

NextLcg ==
    \/ LcgNext
    \/ LcgIntRange
    \/ StarCoord

SpecLcg == InitLcg /\ [][NextLcg]_vars

\* C13: whatever the state of the generator, next() returns v with
\* 0 <= v < 1, int_range(lo, hi) with lo < hi returns n with lo <= n < hi,
\* and a star coordinate int(rng.next() * extent) lies in 0 <= n < extent.
C13_UnitInterval ==
    (lcg # <<>> /\ lcg.op # "init") =>
        /\ FCmp[lcg.v, FZero] >= 0
        /\ FCmp[lcg.v, F1] < 0
        /\ lcg.op \in {"int_range", "coord"} => (lcg.lo <= lcg.n /\ lcg.n < lcg.hi)

=============================================================================
